---------------------------- MODULE Spec2Model ----------------------------
(***************************************************************************)
(* Model of ci/llm_review.py: the pipeline of main()                       *)
(*   read_changed_files -> filter_out_migrations -> get_diff_for_files     *)
(*   -> prompt -> call_llm -> report.                                      *)
(*                                                                         *)
(* A Python str is a sequence of text pieces.  Data that the code looks    *)
(* into (paths, manifest lines, diff text, JSON strings) is held one       *)
(* character per piece; a fixed literal of the program is one piece.       *)
(* A Python value is a record tagged by its type in field t.               *)
(***************************************************************************)
EXTENDS Integers, Sequences, FiniteSets, TLC

VARIABLES
    pc,           \* position of main()
    argv_len,     \* len(sys.argv)
    manifest,     \* the file at sys.argv[1]: absent, or its lines
    all_files,    \* main: all_files
    files,        \* main: files
    idx,          \* get_diff_for_files: position of the for loop
    diff_texts,   \* get_diff_for_files: diff_texts
    diff_log,     \* the runs of git diff so far: path and what git did
    diff_block,   \* main: diff_block
    prompt,       \* main: prompt
    request,      \* the requests.post call made by call_llm, or none
    key_reads,    \* number of reads of LLM_API_KEY
    llm_calls,    \* number of requests.post calls
    reply,        \* what the endpoint did with the request
    review_text,  \* main: review_text (a Python value)
    output,       \* the file at sys.argv[2]: absent, or its content
    stdout,       \* what print() wrote
    uncaught,     \* the exception that left main(), or unset
    exit_status,  \* process exit status, -1 while running
    environ_key   \* os.environ: the value of LLM_API_KEY, empty when not set

vars == <<pc, argv_len, manifest, all_files, files, idx, diff_texts, diff_log,
          diff_block, prompt, request, key_reads, llm_calls, reply,
          review_text, output, stdout, uncaught, exit_status, environ_key>>

----------------------------------------------------------------------------
(* Bounds *)

MaxLines == 2

----------------------------------------------------------------------------
(* Python str operations *)

Whitespace == {" ", "\t", "\n", "\r"}

\* str.strip() is empty
IsBlank(s) == \A i \in 1..Len(s) : s[i] \in Whitespace

\* str.strip()
Strip(s) ==
    IF IsBlank(s) THEN <<>>
    ELSE LET first == CHOOSE i \in 1..Len(s) :
                         /\ s[i] \notin Whitespace
                         /\ \A j \in 1..(i-1) : s[j] \in Whitespace
             last  == CHOOSE i \in 1..Len(s) :
                         /\ s[i] \notin Whitespace
                         /\ \A j \in (i+1)..Len(s) : s[j] \in Whitespace
         IN  SubSeq(s, first, last)

\* str.replace(a, b) for one-character a and b
Replace(s, a, b) == [i \in 1..Len(s) |-> IF s[i] = a THEN b ELSE s[i]]

\* pat in s
Contains(s, pat) ==
    \E i \in 1..(Len(s) - Len(pat) + 1) : SubSeq(s, i, i + Len(pat) - 1) = pat

\* s.endswith(suf)
EndsWith(s, suf) ==
    /\ Len(s) >= Len(suf)
    /\ SubSeq(s, Len(s) - Len(suf) + 1, Len(s)) = suf

RECURSIVE Join(_, _)
\* sep.join(parts)
Join(sep, parts) ==
    IF parts = <<>> THEN <<>>
    ELSE IF Len(parts) = 1 THEN parts[1]
    ELSE parts[1] \o sep \o Join(sep, Tail(parts))

----------------------------------------------------------------------------
(* Python values and files *)

PyStr(s)   == [t |-> "str", v |-> s]
PyNone     == [t |-> "NoneType"]
PyInt(n)   == [t |-> "int", v |-> n]
PyList(xs) == [t |-> "list", v |-> xs]
\* a dict is its items in insertion order, each <<key, value>> with a str key
PyDict(kv) == [t |-> "dict", v |-> kv]

Returned(v) == [ok |-> TRUE, v |-> v]
Raised(cls, msg) == [ok |-> FALSE, cls |-> cls, msg |-> msg]

Absent == [t |-> "absent"]
File(content) == [t |-> "file", v |-> content]

----------------------------------------------------------------------------
(* Configuration *)

LLM_ENDPOINT == "http://code.llama.local:8000/v1/chat/completions"
LLM_MODEL == "codellama-13b"
USE_AUTH_HEADER == FALSE

MigrationsDir == <<"/","M","i","g","r","a","t","i","o","n","s","/">>
SnapshotSuffix == <<"M","o","d","e","l","S","n","a","p","s","h","o","t",".","c","s">>

----------------------------------------------------------------------------
(* read_changed_files *)

RECURSIVE StrippedNonBlank(_)
\* [line.strip() for line in f if line.strip()]
StrippedNonBlank(lines) ==
    IF lines = <<>> THEN <<>>
    ELSE IF Strip(lines[1]) = <<>> THEN StrippedNonBlank(Tail(lines))
    ELSE <<Strip(lines[1])>> \o StrippedNonBlank(Tail(lines))

\* a reader that keeps the blank lines
read_changed_files_KeepBlank(f) ==
    IF f = Absent THEN <<>> ELSE [i \in 1..Len(f.v) |-> Strip(f.v[i])]

read_changed_files(f) ==
    IF f = Absent THEN <<>> ELSE StrippedNonBlank(f.v)

----------------------------------------------------------------------------
(* filter_out_migrations *)

\* the two tests of the loop body that skip a path
IsMigrationFile(p) ==
    LET norm == Replace(p, "\\", "/")
    IN  \/ Contains(norm, MigrationsDir)
        \/ EndsWith(norm, SnapshotSuffix)

RECURSIVE filter_out_migrations(_)
filter_out_migrations(fs) ==
    IF fs = <<>> THEN <<>>
    ELSE IF IsMigrationFile(fs[1]) THEN filter_out_migrations(Tail(fs))
    ELSE <<fs[1]>> \o filter_out_migrations(Tail(fs))

----------------------------------------------------------------------------
(* Exceptions: the classes an exception class derives from *)

Mro(cls) ==
    CASE cls = "CalledProcessError" -> {"CalledProcessError", "SubprocessError", "Exception"}
      [] cls = "FileNotFoundError"  -> {"FileNotFoundError", "OSError", "Exception"}
      [] cls = "ConnectionError"    -> {"ConnectionError", "RequestException", "OSError", "Exception"}
      [] cls = "ReadTimeout"        -> {"ReadTimeout", "Timeout", "RequestException", "OSError", "Exception"}
      [] cls = "HTTPError"          -> {"HTTPError", "RequestException", "OSError", "Exception"}
      [] cls = "JSONDecodeError"    -> {"JSONDecodeError", "ValueError", "Exception"}
      [] cls = "KeyError"           -> {"KeyError", "LookupError", "Exception"}
      [] cls = "IndexError"         -> {"IndexError", "LookupError", "Exception"}
      [] cls = "TypeError"          -> {"TypeError", "Exception"}
      [] OTHER                      -> {cls, "Exception"}

\* except <classes>: catches exc
Catches(classes, exc) == Mro(exc.cls) \cap classes # {}

----------------------------------------------------------------------------
(* get_diff_for_files *)

\* except subprocess.CalledProcessError
DiffExcept == {"CalledProcessError"}

\* a test that keeps every diff, blank or not
KeepsDiff_Always(diff) == TRUE

\* if diff.strip()
KeepsDiff(diff) == ~IsBlank(diff)

\* the block appended for one path, an f-string of
\*   "### File: ", path, newline, the fence opening a diff code block,
\*   newline, diff, newline, the closing fence
\* (the piece "[fence]" stands for the three grave accents of the source)
DiffBlock(path, diff) ==
    <<"### File: ">> \o path \o <<"\n", "[fence]diff", "\n">> \o diff \o <<"\n", "[fence]">>

\* "\n\n".join(diff_texts)
JoinBlocks(blocks) == Join(<<"\n", "\n">>, blocks)

----------------------------------------------------------------------------
(* textwrap.dedent, as main applies it to the interpolated template *)

\* the eight spaces that indent every line of the template
Indent == "        "

InlineSpace == {" ", "\t", Indent}

RECURSIVE SplitLines(_)
\* str.splitlines(keepends=True) at "\n"
SplitLines(s) ==
    IF s = <<>> THEN <<>>
    ELSE LET n == IF \E i \in 1..Len(s) : s[i] = "\n"
                  THEN CHOOSE i \in 1..Len(s) :
                           /\ s[i] = "\n"
                           /\ \A j \in 1..(i-1) : s[j] # "\n"
                  ELSE Len(s)
         IN  <<SubSeq(s, 1, n)>> \o SplitLines(SubSeq(s, n + 1, Len(s)))

\* a line of spaces and tabs only loses them
DedentLine(line) ==
    LET n    == Len(line)
        body == IF n > 0 /\ line[n] = "\n" THEN SubSeq(line, 1, n - 1) ELSE line
    IN  IF body # <<>> /\ \A i \in 1..Len(body) : body[i] \in InlineSpace
        THEN SubSeq(line, Len(body) + 1, n)
        ELSE line

RECURSIVE Concat(_)
Concat(parts) == IF parts = <<>> THEN <<>> ELSE parts[1] \o Concat(Tail(parts))

\* textwrap.dedent of a text that has a non-blank line starting in column 0
\* (the fence line of every diff block), so that the common margin is empty
Dedent(s) ==
    LET ls == SplitLines(s)
    IN  Concat([i \in 1..Len(ls) |-> DedentLine(ls[i])])

\* lines 189-213 of the template, without the indentation of the first
Instructions == "You are performing a code review ... between origin/main and the current branch:"

BuildPrompt(block) ==
    Dedent(<<"\n", Indent, Instructions, "\n", "\n", Indent>> \o block \o <<"\n", Indent>>)

----------------------------------------------------------------------------
(* Subscripting and json.dumps *)

FindKey(kv, k) == {i \in 1..Len(kv) : kv[i][1] = k}

\* x[k] for a str k
GetKey(x, k) ==
    IF x.t = "dict"
    THEN IF FindKey(x.v, k) # {}
         THEN Returned(x.v[CHOOSE i \in FindKey(x.v, k) : TRUE][2])
         ELSE Raised("KeyError", <<k>>)
    ELSE Raised("TypeError", <<"indices must be integers or object is not subscriptable">>)

\* a subscript that takes the last element
GetFirst_Last(x) ==
    IF x.t \in {"list", "str"} /\ Len(x.v) > 0
    THEN Returned(IF x.t = "list" THEN x.v[Len(x.v)] ELSE PyStr(<<x.v[Len(x.v)]>>))
    ELSE Raised("IndexError", <<"index out of range">>)

\* x[0]
GetFirst(x) ==
    CASE x.t = "list" -> IF Len(x.v) > 0 THEN Returned(x.v[1])
                         ELSE Raised("IndexError", <<"list index out of range">>)
      [] x.t = "str"  -> IF Len(x.v) > 0 THEN Returned(PyStr(<<x.v[1]>>))
                         ELSE Raised("IndexError", <<"string index out of range">>)
      [] x.t = "dict" -> Raised("KeyError", <<"0">>)
      [] OTHER        -> Raised("TypeError", <<"object is not subscriptable">>)

\* data["choices"][0]["message"]["content"]
FirstChoiceContent(data) ==
    LET a == GetKey(data, "choices") IN
    IF ~a.ok THEN a ELSE
    LET b == GetFirst(a.v) IN
    IF ~b.ok THEN b ELSE
    LET c == GetKey(b.v, "message") IN
    IF ~c.ok THEN c ELSE GetKey(c.v, "content")

EscapeChar(c) ==
    CASE c = "\"" -> "\\\""
      [] c = "\\" -> "\\\\"
      [] c = "\n" -> "\\n"
      [] c = "\t" -> "\\t"
      [] OTHER    -> c

Quoted(s) == <<"\"">> \o [i \in 1..Len(s) |-> EscapeChar(s[i])] \o <<"\"">>

Spaces(n) == [i \in 1..n |-> " "]

RECURSIVE Dumps(_, _), DumpItems(_, _), DumpPairs(_, _)
\* json.dumps(v, indent=2), at nesting level lvl
Dumps(v, lvl) ==
    CASE v.t = "NoneType" -> <<"null">>
      [] v.t = "int"  -> <<ToString(v.v)>>
      [] v.t = "str"  -> Quoted(v.v)
      [] v.t = "list" ->
            IF v.v = <<>> THEN <<"[]">>
            ELSE <<"[", "\n">> \o DumpItems(v.v, lvl + 1)
                     \o <<"\n">> \o Spaces(2 * lvl) \o <<"]">>
      [] v.t = "dict" ->
            IF v.v = <<>> THEN <<"{}">>
            ELSE <<"{", "\n">> \o DumpPairs(v.v, lvl + 1)
                     \o <<"\n">> \o Spaces(2 * lvl) \o <<"}">>

DumpItems(xs, lvl) ==
    Spaces(2 * lvl) \o Dumps(xs[1], lvl)
        \o (IF Len(xs) = 1 THEN <<>> ELSE <<",", "\n">> \o DumpItems(Tail(xs), lvl))

DumpPairs(kv, lvl) ==
    Spaces(2 * lvl) \o <<"\"", kv[1][1], "\"", ":", " ">> \o Dumps(kv[1][2], lvl)
        \o (IF Len(kv) = 1 THEN <<>> ELSE <<",", "\n">> \o DumpPairs(Tail(kv), lvl))

----------------------------------------------------------------------------
(* call_llm *)

\* headers that carry the token whatever the flag says
BuildHeaders_IgnoreFlag(use_auth, env_key) ==
    [reads |-> 1,
     headers |-> IF env_key # <<>>
                 THEN [n \in {"Content-Type", "Authorization"} |->
                          IF n = "Authorization" THEN <<"Bearer ">> \o env_key
                          ELSE <<"application/json">>]
                 ELSE [n \in {"Content-Type"} |-> <<"application/json">>]]

\* the headers dict, and how often os.environ was asked for LLM_API_KEY
BuildHeaders(use_auth, env_key) ==
    LET base == [n \in {"Content-Type"} |-> <<"application/json">>]
    IN  IF use_auth
        THEN [reads |-> 1,
              headers |-> IF env_key # <<>>
                          THEN [n \in {"Content-Type", "Authorization"} |->
                                   IF n = "Authorization" THEN <<"Bearer ">> \o env_key
                                   ELSE base[n]]
                          ELSE base]
        ELSE [reads |-> 0, headers |-> base]

Payload(p) ==
    [model |-> LLM_MODEL,
     messages |-> <<[role |-> "system",
                     content |-> <<"You are a senior C# ASP.NET Core and DevOps code reviewer.">>],
                    [role |-> "user", content |-> p]>>,
     temperature |-> "0.2"]

BuildRequest(p, env_key) ==
    [url |-> LLM_ENDPOINT,
     headers |-> BuildHeaders(USE_AUTH_HEADER, env_key).headers,
     json |-> Payload(p),
     timeout |-> 120]

UnexpectedStructure(data) ==
    <<"LLM returned an unexpected response structure:", "\n", "\n", "[fence]json", "\n">>
        \o Dumps(data, 0) \o <<"\n", "[fence]">>

\* the classes of the except clause around the subscripting
StructureExcept == {"KeyError", "IndexError", "TypeError"}

\* the try statement that ends call_llm
ExtractContent(data) ==
    LET r == FirstChoiceContent(data)
    IN  IF r.ok THEN r
        ELSE IF Catches(StructureExcept, r) THEN Returned(PyStr(UnexpectedStructure(data)))
        ELSE r

NotJson == [t |-> "undecodable"]

\* what call_llm returns or raises when the endpoint behaves as rep
call_llm(rep) ==
    IF rep.kind = "network" THEN Raised(rep.cls, rep.msg)
    ELSE IF rep.status >= 400 THEN Raised("HTTPError", <<ToString(rep.status), " Error">>)
    ELSE IF rep.body = NotJson THEN Raised("JSONDecodeError", <<"Expecting value: line 1 column 1 (char 0)">>)
    ELSE ExtractContent(rep.body)

----------------------------------------------------------------------------
(* Inputs *)

SeqsUpTo(S, n) == UNION {[1..k -> S] : k \in 0..n}

ManifestLines ==
    { <<"F","o","o",".","c","s","\n">>,
      <<" "," ","S","e","r","v","i","c","e",".","c","s"," ","\n">>,
      <<" ","\t","\n">>,
      <<"M","i","g","r","a","t","i","o","n","s","/","2","0","2","4","_","A","d","d",".","c","s","\n">>,
      <<"s","r","c","\\","M","i","g","r","a","t","i","o","n","s","\\","I","n","i","t",".","c","s","\n">>,
      <<"A","p","p","M","o","d","e","l","S","n","a","p","s","h","o","t",".","c","s","\n">>,
      <<"s","r","c","/","O","l","d","M","i","g","r","a","t","i","o","n","s","/","a",".","c","s","\n">> }

Manifests == {Absent} \cup {File(ls) : ls \in SeqsUpTo(ManifestLines, MaxLines)}

ArgvLens == 1..4

ApiKeys == {<<>>, <<"s","3","c","r","e","t">>}

\* what one run of git diff does: its output, or the exception of check_output
DiffOutcomes ==
    << Returned(<<"+","x","\n"," ","\n","-","y","\n">>),
       Returned(<<>>),
       Returned(<<" ","\n">>),
       Raised("CalledProcessError", <<"Command returned non-zero exit status 128.">>),
       Raised("FileNotFoundError", <<"[Errno 2] No such file or directory: 'git'">>) >>

Content(c) == PyDict(<< <<"message", PyDict(<< <<"content", c>> >>)>> >>)
Body(choices) == PyDict(<< <<"choices", choices>> >>)

\* what the endpoint does with the request
Replies ==
    << [kind |-> "network", cls |-> "ConnectionError", msg |-> <<"Connection refused">>],
       [kind |-> "network", cls |-> "ReadTimeout", msg |-> <<"Read timed out. (read timeout=120)">>],
       [kind |-> "http", status |-> 500, body |-> NotJson],
       [kind |-> "http", status |-> 200, body |-> NotJson],
       [kind |-> "http", status |-> 200, body |-> Body(PyList(<<Content(PyStr(<<"O","K">>))>>))],
       [kind |-> "http", status |-> 200,
        body |-> Body(PyList(<<Content(PyStr(<<"L","G","T","M","\n">>)), Content(PyStr(<<"N","O">>))>>))],
       [kind |-> "http", status |-> 200, body |-> PyDict(<< <<"error", PyStr(<<"b","a","d">>)>> >>)],
       [kind |-> "http", status |-> 200, body |-> Body(PyList(<<>>))],
       [kind |-> "http", status |-> 200, body |-> Body(PyStr(<<"n","o">>))],
       [kind |-> "http", status |-> 200, body |-> Body(PyList(<<PyDict(<<>>)>>))],
       [kind |-> "http", status |-> 200, body |-> Body(PyList(<<PyDict(<< <<"message", PyDict(<<>>)>> >>)>>))],
       [kind |-> "http", status |-> 200, body |-> Body(PyList(<<Content(PyNone)>>))],
       [kind |-> "http", status |-> 200, body |-> Body(PyList(<<Content(PyInt(7))>>))],
       [kind |-> "http", status |-> 200, body |-> PyList(<<>>)] >>

----------------------------------------------------------------------------
(* Messages of main *)

Usage == <<"Usage: llm_review.py <changed_files.txt> <output.md>", "\n">>

NoFilesMessage ==
    <<"No non-migration files to review. EF Core migration files were intentionally ignored.", "\n">>

NoDiffsMessage == <<"No diffs to review for the filtered file set.", "\n">>

Heading == <<"# LLM Code Review (CodeLLaMA)", "\n", "\n">>

ErrorMessage(ex) ==
    <<"Error calling local CodeLLaMA at ", LLM_ENDPOINT, ":", "\n", "\n", ex.cls, ": ">>
        \o ex.msg \o <<"\n">>

\* an except clause for the exceptions of requests only
MainExcept_RequestsOnly == {"RequestException"}

\* the classes of the except clause around call_llm
MainExcept == {"Exception"}

Unset == [t |-> "unset"]

----------------------------------------------------------------------------
(* main *)

Init ==
    /\ pc = "start"
    /\ argv_len \in ArgvLens
    /\ manifest \in Manifests
    /\ environ_key \in ApiKeys
    /\ all_files = <<>>
    /\ files = <<>>
    /\ idx = 0
    /\ diff_texts = <<>>
    /\ diff_log = <<>>
    /\ diff_block = <<>>
    /\ prompt = <<>>
    /\ request = Unset
    /\ key_reads = 0
    /\ llm_calls = 0
    /\ reply = Unset
    /\ review_text = Unset
    /\ output = Absent
    /\ stdout = <<>>
    /\ uncaught = Unset
    /\ exit_status = -1

\* an exception leaves main(): traceback, exit status 1
Crash(ex) ==
    /\ pc' = "done"
    /\ uncaught' = ex
    /\ exit_status' = 1

\* main() returns
Return ==
    /\ pc' = "done"
    /\ exit_status' = 0
    /\ UNCHANGED uncaught

\* the check of len(sys.argv)
CheckArgs ==
    /\ pc = "start"
    /\ IF argv_len # 3
       THEN /\ stdout' = stdout \o Usage
            /\ pc' = "done"
            /\ exit_status' = 1
       ELSE /\ pc' = "read"
            /\ UNCHANGED <<stdout, exit_status>>
    /\ UNCHANGED <<argv_len, manifest, all_files, files, idx, diff_texts, diff_log,
                   diff_block, prompt, request, key_reads, llm_calls, reply,
                   review_text, output, uncaught, environ_key>>

\* 1. Read changed files
ReadChangedFiles ==
    /\ pc = "read"
    /\ all_files' = read_changed_files(manifest)
    /\ pc' = "filter"
    /\ UNCHANGED <<argv_len, manifest, files, idx, diff_texts, diff_log, diff_block,
                   prompt, request, key_reads, llm_calls, reply, review_text,
                   output, stdout, uncaught, exit_status, environ_key>>

\* 2. Filter out EF Core migrations, and the report when nothing is left
FilterFiles ==
    /\ pc = "filter"
    /\ files' = filter_out_migrations(all_files)
    /\ IF files' = <<>>
       THEN /\ output' = File(NoFilesMessage)
            /\ Return
            /\ UNCHANGED idx
       ELSE /\ pc' = "diff"
            /\ idx' = 1
            /\ UNCHANGED <<output, uncaught, exit_status>>
    /\ UNCHANGED <<argv_len, manifest, all_files, diff_texts, diff_log, diff_block,
                   prompt, request, key_reads, llm_calls, reply, review_text,
                   stdout, environ_key>>

\* one turn of the loop of get_diff_for_files, git behaving as r
DiffStep(path, r) ==
    IF path = <<>>
    THEN /\ idx' = idx + 1
         /\ UNCHANGED <<pc, diff_texts, diff_log, uncaught, exit_status>>
    ELSE /\ diff_log' = Append(diff_log, [path |-> path, r |-> r])
         /\ IF r.ok
            THEN /\ diff_texts' = IF KeepsDiff(r.v)
                                  THEN Append(diff_texts, DiffBlock(path, r.v))
                                  ELSE diff_texts
                 /\ idx' = idx + 1
                 /\ UNCHANGED <<pc, uncaught, exit_status>>
            ELSE IF Catches(DiffExcept, r)
            THEN /\ idx' = idx + 1
                 /\ UNCHANGED <<pc, diff_texts, uncaught, exit_status>>
            ELSE /\ Crash(r)
                 /\ UNCHANGED <<idx, diff_texts>>

DiffFile ==
    /\ pc = "diff"
    /\ idx <= Len(files)
    /\ \E i \in 1..Len(DiffOutcomes) : DiffStep(files[idx], DiffOutcomes[i])
    /\ UNCHANGED <<argv_len, manifest, all_files, files, diff_block, prompt,
                   request, key_reads, llm_calls, reply, review_text, output,
                   stdout, environ_key>>

\* get_diff_for_files returns; 3. the report when there is no diff; 4. the prompt
AssembleDiff ==
    /\ pc = "diff"
    /\ idx > Len(files)
    /\ diff_block' = JoinBlocks(diff_texts)
    /\ IF IsBlank(diff_block')
       THEN /\ output' = File(NoDiffsMessage)
            /\ Return
            /\ UNCHANGED prompt
       ELSE /\ prompt' = BuildPrompt(diff_block')
            /\ pc' = "call"
            /\ UNCHANGED <<output, uncaught, exit_status>>
    /\ UNCHANGED <<argv_len, manifest, all_files, files, idx, diff_texts, diff_log,
                   request, key_reads, llm_calls, reply, review_text, stdout,
                   environ_key>>

\* 5. Call local CodeLLaMA, the endpoint behaving as rep
CallStep(rep) ==
    LET res == call_llm(rep)
    IN  /\ request' = BuildRequest(prompt, environ_key)
        /\ key_reads' = key_reads + BuildHeaders(USE_AUTH_HEADER, environ_key).reads
        /\ llm_calls' = llm_calls + 1
        /\ reply' = rep
        /\ IF res.ok
           THEN /\ review_text' = res.v
                /\ pc' = "write"
                /\ UNCHANGED <<uncaught, exit_status>>
           ELSE IF Catches(MainExcept, res)
           THEN /\ review_text' = PyStr(ErrorMessage(res))
                /\ pc' = "write"
                /\ UNCHANGED <<uncaught, exit_status>>
           ELSE /\ Crash(res)
                /\ UNCHANGED review_text

CallLLM ==
    /\ pc = "call"
    /\ \E i \in 1..Len(Replies) : CallStep(Replies[i])
    /\ UNCHANGED <<argv_len, manifest, all_files, files, idx, diff_texts, diff_log,
                   diff_block, prompt, output, stdout, environ_key>>

\* 6. Write markdown report: three writes, the second of a value that
\* is a str or else raises TypeError with the heading already written
WriteReport ==
    /\ pc = "write"
    /\ IF review_text.t = "str"
       THEN /\ output' = File(Heading \o review_text.v \o <<"\n">>)
            /\ Return
       ELSE /\ output' = File(Heading)
            /\ Crash(Raised("TypeError", <<"write() argument must be str, not ", review_text.t>>))
    /\ UNCHANGED <<argv_len, manifest, all_files, files, idx, diff_texts, diff_log,
                   diff_block, prompt, request, key_reads, llm_calls, reply,
                   review_text, stdout, environ_key>>

Next ==
    \/ CheckArgs
    \/ ReadChangedFiles
    \/ FilterFiles
    \/ DiffFile
    \/ AssembleDiff
    \/ CallLLM
    \/ WriteReport

Spec == Init /\ [][Next]_vars

----------------------------------------------------------------------------
(* Properties *)

Finished == pc = "done"

AfterFilter == pc \notin {"start", "read", "filter"}

LogPaths == [i \in 1..Len(diff_log) |-> diff_log[i].path]

\* the run of git gave text that is more than whitespace
GaveDiff(e) == e.r.ok /\ ~IsBlank(e.r.v)

RECURSIVE BlocksOf(_)
\* one block per run that gave a diff, in the order of the runs
BlocksOf(log) ==
    IF log = <<>> THEN <<>>
    ELSE IF GaveDiff(log[1])
         THEN <<DiffBlock(log[1].path, log[1].r.v)>> \o BlocksOf(Tail(log))
         ELSE BlocksOf(Tail(log))

HasKey(d, k) == \E i \in 1..Len(d.v) : d.v[i][1] = k
ValueAt(d, k) == d.v[CHOOSE i \in 1..Len(d.v) : d.v[i][1] = k][2]

\* an object with a list choices whose first element is an object with
\* message.content being a string
WellFormed(b) ==
    /\ b.t = "dict"
    /\ HasKey(b, "choices")
    /\ ValueAt(b, "choices").t = "list"
    /\ Len(ValueAt(b, "choices").v) > 0
    /\ ValueAt(b, "choices").v[1].t = "dict"
    /\ HasKey(ValueAt(b, "choices").v[1], "message")
    /\ ValueAt(ValueAt(b, "choices").v[1], "message").t = "dict"
    /\ HasKey(ValueAt(ValueAt(b, "choices").v[1], "message"), "content")
    /\ ValueAt(ValueAt(ValueAt(b, "choices").v[1], "message"), "content").t = "str"

ContentOfFirstChoice(b) ==
    ValueAt(ValueAt(ValueAt(b, "choices").v[1], "message"), "content")

\* the endpoint answered with a JSON body
GotJson == llm_calls = 1 /\ reply.kind = "http" /\ reply.status < 400 /\ reply.body # NotJson

\* the call to the endpoint failed: no connection, timeout, error status,
\* or a body that is not JSON
CallFailed ==
    /\ llm_calls = 1
    /\ \/ reply.kind = "network"
       \/ reply.status >= 400
       \/ reply.body = NotJson

FailureClass ==
    IF reply.kind = "network" THEN reply.cls
    ELSE IF reply.status >= 400 THEN "HTTPError"
    ELSE "JSONDecodeError"

\* a path with a segment equal to seg
HasSegment(norm, seg) ==
    \E i \in 1..Len(norm) :
        /\ i + Len(seg) - 1 <= Len(norm)
        /\ SubSeq(norm, i, i + Len(seg) - 1) = seg
        /\ (i = 1 \/ norm[i - 1] = "/")
        /\ (i + Len(seg) - 1 = Len(norm) \/ norm[i + Len(seg)] = "/")

Generated(p) ==
    \/ HasSegment(Replace(p, "\\", "/"), <<"M","i","g","r","a","t","i","o","n","s">>)
    \/ EndsWith(p, SnapshotSuffix)

RECURSIVE WithoutGenerated(_)
WithoutGenerated(fs) ==
    IF fs = <<>> THEN <<>>
    ELSE IF Generated(fs[1]) THEN WithoutGenerated(Tail(fs))
    ELSE <<fs[1]>> \o WithoutGenerated(Tail(fs))

\* C1: every run with two arguments ends with the output file present,
\* holding a short-circuit message, or the heading followed by the review
\* text (which for a failed model call is the error message) and a newline,
\* whatever git and the endpoint do.
C1_OutputAlwaysProduced ==
    (Finished /\ argv_len = 3) =>
        /\ output # Absent
        /\ \/ output = File(NoFilesMessage)
           \/ output = File(NoDiffsMessage)
           \/ /\ review_text.t = "str"
              /\ output = File(Heading \o review_text.v \o <<"\n">>)

\* C2: a JSON body that is not of the expected shape never makes the run
\* crash: the report is the heading, the fallback text with the body
\* pretty-printed, and a newline.
C2_MalformedNeverCrashes ==
    (GotJson /\ ~WellFormed(reply.body)) =>
        /\ uncaught = Unset
        /\ review_text = PyStr(UnexpectedStructure(reply.body))
        /\ Finished =>
              /\ exit_status = 0
              /\ output = File(Heading \o UnexpectedStructure(reply.body) \o <<"\n">>)

\* C3: the filter keeps, in order, exactly the paths that have no segment
\* Migrations (either separator, first segment included) and do not end
\* with ModelSnapshot.cs.
C3_FilterBySegment == AfterFilter => files = WithoutGenerated(all_files)

\* the manifest is absent, or every line of it is blank or filtered out
NothingToReview ==
    \/ manifest = Absent
    \/ \A i \in 1..Len(manifest.v) :
          IsBlank(manifest.v[i]) \/ IsMigrationFile(Strip(manifest.v[i]))

\* C4: with the manifest absent, or with no line that is not blank or
\* filtered out, git and the endpoint are never called and the run ends with
\* the no-files message as the output, the same for an absent and an empty
\* manifest.
C4_NoFilesShortCircuit ==
    (argv_len = 3 /\ NothingToReview) =>
        /\ diff_log = <<>>
        /\ llm_calls = 0
        /\ request = Unset
        /\ Finished =>
              /\ output = File(NoFilesMessage)
              /\ exit_status = 0
              /\ uncaught = Unset

C4_Witness ==
    /\ Finished
    /\ argv_len = 3
    /\ manifest # Absent
    /\ Len(manifest.v) >= 2
    /\ NothingToReview
    /\ \E i \in 1..Len(manifest.v) : ~IsBlank(manifest.v[i])
    /\ \E i \in 1..Len(manifest.v) : IsBlank(manifest.v[i])
    /\ output = File(NoFilesMessage)

\* the loop over the retained files ended and no run of git gave a diff
BundleEmpty ==
    /\ files # <<>>
    /\ idx > Len(files)
    /\ \A i \in 1..Len(diff_log) : ~GaveDiff(diff_log[i])

C6_ModelFailureReported ==
    CallFailed =>
        /\ uncaught = Unset
        /\ review_text.t = "str"
        /\ Contains(review_text.v, <<LLM_ENDPOINT>>)
        /\ Contains(review_text.v, <<FailureClass, ": ">> \o call_llm(reply).msg)
        /\ Finished =>
              /\ exit_status = 0
              /\ output = File(Heading \o review_text.v \o <<"\n">>)

C6_Witness ==
    /\ Finished
    /\ CallFailed
    /\ reply.kind = "http"
    /\ reply.status < 400
    /\ exit_status = 0
    /\ Contains(output.v, <<"JSONDecodeError", ": ">>)

\* C7: for a body of the expected shape the result is the content of the
\* first choice, and the output is the heading, that content unchanged, and
\* a newline.
C7_FirstChoiceVerbatim ==
    (GotJson /\ WellFormed(reply.body)) =>
        /\ uncaught = Unset
        /\ review_text = ContentOfFirstChoice(reply.body)
        /\ Finished =>
              /\ exit_status = 0
              /\ output = File(Heading \o ContentOfFirstChoice(reply.body).v \o <<"\n">>)

C7_Witness ==
    /\ Finished
    /\ GotJson
    /\ WellFormed(reply.body)
    /\ Len(ValueAt(reply.body, "choices").v) = 2
    /\ output = File(Heading \o <<"L","G","T","M","\n">> \o <<"\n">>)

\* C8: a run of git that fails never ends the loop: once the loop is left
\* every retained path has been handed to git, in order, and the bundle is
\* the blocks, joined, of exactly the runs that gave a diff.
C8_FailedDiffNeverAborts ==
    /\ diff_texts = BlocksOf(diff_log)
    /\ (AfterFilter /\ pc # "diff" /\ files # <<>>) =>
          /\ LogPaths = files
          /\ diff_block = JoinBlocks(BlocksOf(diff_log))

\* C9: the exit status is not 0 exactly for the runs with other than two
\* arguments, which print the usage message and leave the output file alone.
C9_ExitStatus ==
    Finished =>
        /\ (exit_status # 0) <=> (argv_len # 3)
        /\ argv_len # 3 => (stdout = Usage /\ output = Absent)

\* C10: the request has an Authorization header exactly when the flag is set
\* and the environment holds a token that is not empty; with the flag as the
\* program sets it no request has the header and the token is never read.
C10_AuthHeaderOnlyWhenEnabled ==
    /\ \A flag \in BOOLEAN, k \in ApiKeys :
          /\ ("Authorization" \in DOMAIN BuildHeaders(flag, k).headers)
                <=> (flag /\ k # <<>>)
          /\ ~flag => BuildHeaders(flag, k).reads = 0
    /\ request # Unset =>
          ("Authorization" \in DOMAIN request.headers)
              <=> (USE_AUTH_HEADER /\ environ_key # <<>>)
    /\ ~USE_AUTH_HEADER =>
          /\ key_reads = 0
          /\ request # Unset => DOMAIN request.headers = {"Content-Type"}

C10_Witness ==
    /\ request # Unset
    /\ environ_key # <<>>
    /\ "Authorization" \notin DOMAIN request.headers
    /\ key_reads = 0

=============================================================================
